---- MODULE Spec2Model ----
(***************************************************************************)
(* Model of fluent/src/types.rs: the FluentValue enum, its constructors,   *)
(* format and matches.                                                     *)
(*                                                                         *)
(* A Rust string is a sequence of one-character strings, so that parsing   *)
(* and printing are computed character by character.  Every operation is   *)
(* a function of its arguments; a behaviour is one call drawn from the     *)
(* bounded input sets, optionally followed by formatting the value a       *)
(* constructor returned.                                                   *)
(***************************************************************************)
EXTENDS Integers, Sequences, FiniteSets

VARIABLES
    op,      \* the operation called last, "none" before the first call
    via,     \* how self was obtained: a constructor's name, or "literal"
    arg,     \* the constructor's input
    self,    \* the receiver of format / matches
    other,   \* the second operand of matches
    ctx,     \* the MessageContext passed to format / matches
    ret,     \* what the call returned, or that it panicked
    trace,   \* the collaborator calls matches made, with their results
    stdout   \* the lines written to standard output

vars == <<op, via, arg, self, other, ctx, ret, trace, stdout>>

(***************************************************************************)
(* Bounds of the model.                                                    *)
(***************************************************************************)
MaxLen == 3          \* longest generated input text
MaxLocales == 2      \* longest requested-locale list of a context
MaxF32Int == 2       \* largest integer part of a modelled finite f32

(***************************************************************************)
(* Characters and texts.                                                   *)
(***************************************************************************)
Digits == {"0", "1", "2", "3", "4", "5", "6", "7", "8", "9"}

DigitVal(c) ==
    CASE c = "0" -> 0 [] c = "1" -> 1 [] c = "2" -> 2 [] c = "3" -> 3
      [] c = "4" -> 4 [] c = "5" -> 5 [] c = "6" -> 6 [] c = "7" -> 7
      [] c = "8" -> 8 [] c = "9" -> 9

DigitChar(n) ==
    CASE n = 0 -> "0" [] n = 1 -> "1" [] n = 2 -> "2" [] n = 3 -> "3"
      [] n = 4 -> "4" [] n = 5 -> "5" [] n = 6 -> "6" [] n = 7 -> "7"
      [] n = 8 -> "8" [] n = 9 -> "9"

IsDigitSeq(s) == \A k \in 1..Len(s) : s[k] \in Digits

\* ASCII lower-casing of the letters the special float words are made of.
Lower(c) ==
    CASE c = "I" -> "i" [] c = "N" -> "n" [] c = "F" -> "f" [] c = "A" -> "a"
      [] c = "T" -> "t" [] c = "Y" -> "y" [] c = "E" -> "e"
      [] OTHER -> c

LowerSeq(s) == [k \in 1..Len(s) |-> Lower(s[k])]

\* First position of s holding a character of cs, 0 when there is none.
IndexOf(s, cs) ==
    IF \E k \in 1..Len(s) : s[k] \in cs
    THEN CHOOSE k \in 1..Len(s) : s[k] \in cs /\ \A j \in 1..(k - 1) : s[j] \notin cs
    ELSE 0

\* The value of a digit sequence read as a decimal numeral (0 for the empty one).
RECURSIVE DecimalValue(_)
DecimalValue(s) ==
    IF Len(s) = 0 THEN 0
    ELSE 10 * DecimalValue(SubSeq(s, 1, Len(s) - 1)) + DigitVal(s[Len(s)])

\* All sequences over cs of length at most n.
RECURSIVE SeqsUpTo(_, _)
SeqsUpTo(cs, n) ==
    IF n = 0 THEN {<<>>}
    ELSE LET shorter == SeqsUpTo(cs, n - 1)
         IN  shorter \cup {Append(s, c) : s \in shorter, c \in cs}

(***************************************************************************)
(* Input texts.                                                            *)
(***************************************************************************)
Alphabet == {"0", "1", ".", "-"}

GeneratedTexts == SeqsUpTo(Alphabet, MaxLen)

SelectorKeys ==
    { <<"z", "e", "r", "o">>, <<"o", "n", "e">>, <<"t", "w", "o">>,
      <<"f", "e", "w">>, <<"m", "a", "n", "y">>, <<"o", "t", "h", "e", "r">> }

OtherSelectors ==
    { <<>>, <<"f", "o", "o">>, <<"O", "n", "e">>, <<"o", "n", "e", "s">> }

NumberTexts ==
    { <<"0">>, <<"1">>, <<"2">>, <<"5">>, <<"1", "0">>, <<"1", "1">>, <<"1", "2">>,
      <<"1", "0", "0">>, <<"1", ".", "0">>, <<"1", ".", "5">>, <<"-", "1">>,
      <<"0", "0", "7">>, <<"i", "n", "f">>, <<"N", "a", "N">>, <<"1", "e", "1">> }

OddTexts ==
    { <<"a", "b", "c">>, <<"1", "e">>, <<"e", "1">>, <<"1", ".", "e", "1">>,
      <<"+", "1">>, <<"-", "i", "n", "f">>, <<"1", "E", "-", "1">>, <<"1", " ">> }

MatchTexts == SelectorKeys \cup OtherSelectors \cup NumberTexts

Texts == GeneratedTexts \cup MatchTexts \cup OddTexts

(***************************************************************************)
(* FluentValue and the values an operation takes and returns.              *)
(***************************************************************************)
FluentString(s) == [kind |-> "String", text |-> s]

FluentNumber(s) == [kind |-> "Number", text |-> s]

NoValue == [kind |-> "None", text |-> <<>>]

FluentValue(texts) == {FluentString(s) : s \in texts} \cup {FluentNumber(s) : s \in texts}

\* f32 inputs: NaN, the infinities, and finite values int.frac with either sign.
F32Fractions == { <<>>, <<"5">>, <<"2", "5">> }

F32Values ==
    [class : {"nan", "inf"}, neg : BOOLEAN, int : {0}, frac : {<<>>}]
    \cup [class : {"finite"}, neg : BOOLEAN, int : 0..MaxF32Int, frac : F32Fractions]

NoF32 == [class |-> "none", neg |-> FALSE, int |-> 0, frac |-> <<>>]

I8Min == -128

I8Max == 127

I8Values == I8Min..I8Max

TextArg(s) == [kind |-> "text", text |-> s, f |-> NoF32, i |-> 0]

F32Arg(f) == [kind |-> "f32", text |-> <<>>, f |-> f, i |-> 0]

I8Arg(i) == [kind |-> "i8", text |-> <<>>, f |-> NoF32, i |-> i]

NoArg == [kind |-> "none", text |-> <<>>, f |-> NoF32, i |-> 0]

OkValue(v) == [tag |-> "Ok", val |-> v, b |-> FALSE, s |-> <<>>]

ParseFloatError == [tag |-> "Err", val |-> NoValue, b |-> FALSE, s |-> <<>>]

Value(v) == [tag |-> "Value", val |-> v, b |-> FALSE, s |-> <<>>]

Text(s) == [tag |-> "Text", val |-> NoValue, b |-> FALSE, s |-> s]

Bool(b) == [tag |-> "Bool", val |-> NoValue, b |-> b, s |-> <<>>]

Panic == [tag |-> "Panic", val |-> NoValue, b |-> FALSE, s |-> <<>>]

NoRet == [tag |-> "None", val |-> NoValue, b |-> FALSE, s |-> <<>>]

NoTrace == [negotiated |-> "NotCalled", locales |-> <<>>,
            created |-> "NotCalled", classified |-> "NotCalled"]

(***************************************************************************)
(* Standard-library conversions the constructors call.                     *)
(***************************************************************************)
\* <i8 as ToString>::to_string and the integer part of a float: decimal digits.
RECURSIVE NatDisplay(_)
NatDisplay(n) ==
    IF n < 10 THEN <<DigitChar(n)>>
    ELSE NatDisplay(n \div 10) \o <<DigitChar(n % 10)>>

I8Display(n) == IF n < 0 THEN <<"-">> \o NatDisplay(0 - n) ELSE NatDisplay(n)

\* <f32 as ToString>::to_string: "NaN" without a sign, "inf" / "-inf", and a finite
\* value as plain decimal digits without an exponent, the sign of -0 included.
F32Display(f) ==
    CASE f.class = "nan" -> <<"N", "a", "N">>
      [] f.class = "inf" -> (IF f.neg THEN <<"-">> ELSE <<>>) \o <<"i", "n", "f">>
      [] OTHER ->
           (IF f.neg THEN <<"-">> ELSE <<>>)
           \o NatDisplay(f.int)
           \o (IF f.frac = <<>> THEN <<>> ELSE <<".">> \o f.frac)

\* v.to_string() for the S: ToString inputs modelled: text, f32, i8.
to_string(v) ==
    CASE v.kind = "text" -> v.text
      [] v.kind = "f32" -> F32Display(v.f)
      [] v.kind = "i8" -> I8Display(v.i)
      [] OTHER -> <<>>

StripSign(s) == IF Len(s) > 0 /\ s[1] \in {"+", "-"} THEN Tail(s) ELSE s

\* Exp ::= 'e' Sign? Digit+   (the text from the 'e' on)
IsExponent(e) ==
    /\ Len(e) >= 2
    /\ Lower(e[1]) = "e"
    /\ LET d == StripSign(Tail(e)) IN Len(d) > 0 /\ IsDigitSeq(d)

\* Digit+ | Digit+ '.' Digit* | Digit* '.' Digit+
IsMantissa(m) ==
    LET dot == IndexOf(m, {"."})
        int == IF dot = 0 THEN m ELSE SubSeq(m, 1, dot - 1)
        frac == IF dot = 0 THEN <<>> ELSE SubSeq(m, dot + 1, Len(m))
    IN  /\ IsDigitSeq(int)
        /\ IsDigitSeq(frac)
        /\ Len(int) + Len(frac) > 0

\* Number ::= Mantissa Exp?
IsFloatNumber(s) ==
    LET e == IndexOf(s, {"e", "E"})
    IN  IF e = 0 THEN IsMantissa(s)
        ELSE IsMantissa(SubSeq(s, 1, e - 1)) /\ IsExponent(SubSeq(s, e, Len(s)))

FloatWords ==
    { <<"i", "n", "f">>, <<"n", "a", "n">>, <<"i", "n", "f", "i", "n", "i", "t", "y">> }

\* f64::from_str: Sign? ( 'inf' | 'infinity' | 'nan' | Number ), nothing trimmed.
\* Only whether it is Ok is used: as_number discards the parsed value.
F64FromStr(s) ==
    LET body == StripSign(s)
    IN  IF LowerSeq(body) \in FloatWords \/ IsFloatNumber(body) THEN "Ok" ELSE "Err"

(***************************************************************************)
(* Constructors and format.                                                *)
(***************************************************************************)
as_number_fallback(v) ==
    IF F64FromStr(to_string(v)) = "Ok"
    THEN OkValue(FluentNumber(to_string(v)))
    ELSE OkValue(FluentString(to_string(v)))

\* The text with the leading zeros of its integer part removed.
RECURSIVE StripLeadingZeros(_)
StripLeadingZeros(s) ==
    IF Len(s) >= 2 /\ s[1] = "0" /\ s[2] \in Digits THEN StripLeadingZeros(Tail(s))
    ELSE s

as_number_reserialised(v) ==
    IF F64FromStr(to_string(v)) = "Ok"
    THEN OkValue(FluentNumber(StripLeadingZeros(to_string(v))))
    ELSE ParseFloatError

as_number(v) ==
    IF F64FromStr(to_string(v)) = "Ok"
    THEN OkValue(FluentNumber(to_string(v)))
    ELSE ParseFloatError

format(v, c) ==
    CASE v.kind = "String" -> v.text
      [] v.kind = "Number" -> v.text

from_String(s) == FluentString(s)

from_str_sniffing(s) == IF F64FromStr(s) = "Ok" THEN FluentNumber(s) ELSE FluentString(s)

from_str(s) == FluentString(s)

from_f32(n) == FluentNumber(F32Display(n))

from_i8(n) == FluentNumber(I8Display(n))

(***************************************************************************)
(* Collaborators of matches: fluent_locale and intl_pluralrules.  A locale *)
(* identifier is the sequence of its subtags.                              *)
(***************************************************************************)
RequestedLocales == { <<"ar">>, <<"pl">>, <<"en", "US">>, <<"xx">> }

\* IntlPluralRules::get_locales(PluralRuleType::CARDINAL), an excerpt of the list.
CardinalLocales == { <<"en">>, <<"pl">>, <<"ar">> }

DefaultLocale_pl == <<"pl">>

\* Some("en"), the fallback handed to negotiate_languages.
DefaultLocale == <<"en">>

NoCtx == [passed |-> FALSE, locales |-> <<>>]

MessageContext(l) == [passed |-> TRUE, locales |-> l]

Contexts == {MessageContext(l) : l \in SeqsUpTo(RequestedLocales, MaxLocales)}

\* The available locale a requested one resolves to: itself, else its language.
HasMatch(r, available) == r \in available \/ <<r[1]>> \in available

MatchOf(r, available) == IF r \in available THEN r ELSE <<r[1]>>

\* NegotiationStrategy::Lookup keeps the first requested locale that has a match.
RECURSIVE filter_matches(_, _)
filter_matches(requested, available) ==
    IF requested = <<>> THEN <<>>
    ELSE IF HasMatch(Head(requested), available)
         THEN <<MatchOf(Head(requested), available)>>
         ELSE filter_matches(Tail(requested), available)

negotiate_languages(requested, available, default) ==
    LET supported == filter_matches(requested, available)
    IN  IF supported = <<>> THEN <<default>> ELSE supported

\* IntlPluralRules::create: a classifier exists for the provider's locales only.
create(locale) == IF locale \in CardinalLocales THEN "Ok" ELSE "Err"

\* The plural operands of a numeric text: i the integer digits, v the number of
\* visible fraction digits, f their value.  Only [-]digits[.digits] has operands.
PluralOperands(b) ==
    LET abs == IF Len(b) > 0 /\ b[1] = "-" THEN Tail(b) ELSE b
        dot == IndexOf(abs, {"."})
        int == IF dot = 0 THEN abs ELSE SubSeq(abs, 1, dot - 1)
        frac == IF dot = 0 THEN <<>> ELSE SubSeq(abs, dot + 1, Len(abs))
    IN  IF /\ Len(int) > 0
           /\ IsDigitSeq(int)
           /\ IsDigitSeq(frac)
           /\ (dot = 0 \/ Len(frac) > 0)
        THEN [ok |-> TRUE, i |-> DecimalValue(int), v |-> Len(frac), f |-> DecimalValue(frac)]
        ELSE [ok |-> FALSE, i |-> 0, v |-> 0, f |-> 0]

\* CLDR cardinal rules of the three locales.
CardinalRule(locale, o) ==
    CASE locale = <<"en">> ->
           IF o.i = 1 /\ o.v = 0 THEN "ONE" ELSE "OTHER"
      [] locale = <<"pl">> ->
           IF o.v # 0 THEN "OTHER"
           ELSE IF o.i = 1 THEN "ONE"
           ELSE IF o.i % 10 \in 2..4 /\ o.i % 100 \notin 12..14 THEN "FEW"
           ELSE "MANY"
      [] locale = <<"ar">> ->
           IF o.f # 0 THEN "OTHER"
           ELSE IF o.i = 0 THEN "ZERO"
           ELSE IF o.i = 1 THEN "ONE"
           ELSE IF o.i = 2 THEN "TWO"
           ELSE IF o.i % 100 \in 3..10 THEN "FEW"
           ELSE IF o.i % 100 \in 11..99 THEN "MANY"
           ELSE "OTHER"

\* IntlPluralRules::select: the category of the text, "Err" when it has no operands.
select(locale, b) ==
    LET o == PluralOperands(b)
    IN  IF o.ok THEN CardinalRule(locale, o) ELSE "Err"

\* What the collaborators do in a call: honour their contracts, or break one.
CollaboratorModes == {"contract", "empty_negotiation", "create_fails"}

Negotiate(requested, mode) ==
    IF mode = "empty_negotiation" THEN <<>>
    ELSE negotiate_languages(requested, CardinalLocales, DefaultLocale)

Create(locale, mode) == IF mode = "create_fails" THEN "Err" ELSE create(locale)

(***************************************************************************)
(* matches.                                                                *)
(***************************************************************************)
\* println!("Number: {:#?}", b): the Debug form of a String is the quoted text.
NumberLine(b) == <<"N", "u", "m", "b", "e", "r", ":", " ", "\"">> \o b \o <<"\"">>

ParseCategory_swapped(a) ==
    CASE a = <<"z", "e", "r", "o">> -> "ZERO"
      [] a = <<"o", "n", "e">> -> "ONE"
      [] a = <<"t", "w", "o">> -> "TWO"
      [] a = <<"f", "e", "w">> -> "MANY"
      [] a = <<"m", "a", "n", "y">> -> "FEW"
      [] a = <<"o", "t", "h", "e", "r">> -> "OTHER"
      [] OTHER -> "return false"

ParseCategory_lenient(a) ==
    CASE a = <<"z", "e", "r", "o">> -> "ZERO"
      [] LowerSeq(a) = <<"o", "n", "e">> -> "ONE"
      [] a = <<"t", "w", "o">> -> "TWO"
      [] a = <<"f", "e", "w">> -> "FEW"
      [] a = <<"m", "a", "n", "y">> -> "MANY"
      [] OTHER -> "OTHER"

\* let cat = match a.as_str() { ... _ => return false }
ParseCategory(a) ==
    CASE a = <<"z", "e", "r", "o">> -> "ZERO"
      [] a = <<"o", "n", "e">> -> "ONE"
      [] a = <<"t", "w", "o">> -> "TWO"
      [] a = <<"f", "e", "w">> -> "FEW"
      [] a = <<"m", "a", "n", "y">> -> "MANY"
      [] a = <<"o", "t", "h", "e", "r">> -> "OTHER"
      [] OTHER -> "return false"

Outcome(r, t, p) == [ret |-> r, trace |-> t, printed |-> p]

matches_selector_absorbing(a, b, c, mode) ==
    LET printed == <<NumberLine(b)>>
        cat == ParseCategory(a)
        locales == Negotiate(c.locales, mode)
        negotiated == [NoTrace EXCEPT !.negotiated = "Called", !.locales = locales]
    IN  IF cat = "return false" THEN Outcome(Bool(FALSE), NoTrace, printed)
        ELSE IF locales = <<>> THEN Outcome(Bool(FALSE), negotiated, printed)
        ELSE LET pr == Create(locales[1], mode)
                 created == [negotiated EXCEPT !.created = pr]
             IN  IF pr = "Err" THEN Outcome(Bool(FALSE), created, printed)
                 ELSE LET cls == select(locales[1], b)
                      IN  Outcome(Bool(cls = cat),
                                  [created EXCEPT !.classified = cls], printed)

\* The (String, Number) arm, in the order of its statements.
matches_selector(a, b, c, mode) ==
    LET printed == <<NumberLine(b)>>
        cat == ParseCategory(a)
        locales == Negotiate(c.locales, mode)
        negotiated == [NoTrace EXCEPT !.negotiated = "Called", !.locales = locales]
    IN  IF cat = "return false" THEN Outcome(Bool(FALSE), NoTrace, printed)
        ELSE IF locales = <<>> THEN Outcome(Panic, negotiated, printed)
        ELSE LET pr == Create(locales[1], mode)
                 created == [negotiated EXCEPT !.created = pr]
             IN  IF pr = "Err" THEN Outcome(Panic, created, printed)
                 ELSE LET cls == select(locales[1], b)
                      IN  Outcome(Bool(cls = cat),
                                  [created EXCEPT !.classified = cls], printed)

StripPointZero(s) ==
    IF Len(s) >= 3 /\ s[Len(s) - 1] = "." /\ s[Len(s)] = "0" THEN SubSeq(s, 1, Len(s) - 2)
    ELSE s

matches_symmetric(a, c, b, mode) ==
    CASE a.kind = "String" /\ b.kind = "String" -> Outcome(Bool(a.text = b.text), NoTrace, <<>>)
      [] a.kind = "Number" /\ b.kind = "Number" -> Outcome(Bool(a.text = b.text), NoTrace, <<>>)
      [] a.kind = "String" /\ b.kind = "Number" -> matches_selector(a.text, b.text, c, mode)
      [] a.kind = "Number" /\ b.kind = "String" ->
           LET r == matches_selector(b.text, a.text, c, mode)
           IN  Outcome(r.ret, r.trace, <<>>)

matches_numeric(a, c, b, mode) ==
    CASE a.kind = "String" /\ b.kind = "String" -> Outcome(Bool(a.text = b.text), NoTrace, <<>>)
      [] a.kind = "Number" /\ b.kind = "Number" ->
           Outcome(Bool(StripPointZero(a.text) = StripPointZero(b.text)), NoTrace, <<>>)
      [] a.kind = "String" /\ b.kind = "Number" -> matches_selector(a.text, b.text, c, mode)
      [] a.kind = "Number" /\ b.kind = "String" -> Outcome(Bool(FALSE), NoTrace, <<>>)

matches(a, c, b, mode) ==
    CASE a.kind = "String" /\ b.kind = "String" -> Outcome(Bool(a.text = b.text), NoTrace, <<>>)
      [] a.kind = "Number" /\ b.kind = "Number" -> Outcome(Bool(a.text = b.text), NoTrace, <<>>)
      [] a.kind = "String" /\ b.kind = "Number" -> matches_selector(a.text, b.text, c, mode)
      [] a.kind = "Number" /\ b.kind = "String" -> Outcome(Bool(FALSE), NoTrace, <<>>)

(***************************************************************************)
(* The calls.                                                              *)
(***************************************************************************)
Constructors == {"as_number", "from_String", "from_str", "from_f32", "from_i8"}

Init ==
    /\ op = "none"
    /\ via = "none"
    /\ arg = NoArg
    /\ self = NoValue
    /\ other = NoValue
    /\ ctx = NoCtx
    /\ ret = NoRet
    /\ trace = NoTrace
    /\ stdout = <<>>

Construct(name, v, r) ==
    /\ op = "none"
    /\ op' = name
    /\ arg' = v
    /\ ret' = r
    /\ UNCHANGED <<via, self, other, ctx, trace, stdout>>

NumberInputs ==
    {TextArg(s) : s \in Texts} \cup {F32Arg(f) : f \in F32Values} \cup {I8Arg(i) : i \in I8Values}

AsNumber == \E v \in NumberInputs : Construct("as_number", v, as_number(v))

FromString == \E s \in Texts : Construct("from_String", TextArg(s), Value(from_String(s)))

FromStr == \E s \in Texts : Construct("from_str", TextArg(s), Value(from_str(s)))

FromF32 == \E n \in F32Values : Construct("from_f32", F32Arg(n), Value(from_f32(n)))

FromI8 == \E n \in I8Values : Construct("from_i8", I8Arg(n), Value(from_i8(n)))

\* format on a value written as an enum literal.
Format ==
    /\ op = "none"
    /\ \E v \in FluentValue(Texts), c \in Contexts :
         /\ op' = "format"
         /\ via' = "literal"
         /\ self' = v
         /\ ctx' = c
         /\ ret' = Text(format(v, c))
    /\ UNCHANGED <<arg, other, trace, stdout>>

\* format on the value a constructor has just returned.
FormatConstructed ==
    /\ op \in Constructors
    /\ ret.tag \in {"Ok", "Value"}
    /\ \E c \in Contexts :
         /\ op' = "format"
         /\ via' = op
         /\ self' = ret.val
         /\ ctx' = c
         /\ ret' = Text(format(ret.val, c))
    /\ UNCHANGED <<arg, other, trace, stdout>>

MatchesUnder(modes) ==
    /\ op = "none"
    /\ \E a \in FluentValue(MatchTexts), b \in FluentValue(MatchTexts),
          c \in Contexts, mode \in modes :
         LET r == matches(a, c, b, mode)
         IN  /\ op' = "matches"
             /\ via' = "literal"
             /\ self' = a
             /\ other' = b
             /\ ctx' = c
             /\ ret' = r.ret
             /\ trace' = r.trace
             /\ stdout' = stdout \o r.printed
    /\ UNCHANGED arg

\* matches with collaborators that honour their contracts.
Matches == MatchesUnder({"contract"})

\* matches with collaborators that may break their contracts.
MatchesFaulty == MatchesUnder(CollaboratorModes)

Next ==
    \/ AsNumber
    \/ FromString
    \/ FromStr
    \/ FromF32
    \/ FromI8
    \/ Format
    \/ FormatConstructed
    \/ Matches

Spec == Init /\ [][Next]_vars

NextFaulty ==
    \/ AsNumber
    \/ FromString
    \/ FromStr
    \/ FromF32
    \/ FromI8
    \/ Format
    \/ FormatConstructed
    \/ MatchesFaulty

SpecFaulty == Init /\ [][NextFaulty]_vars

(***************************************************************************)
(* Properties.                                                             *)
(***************************************************************************)
\* The selector key that names a plural category; no key names a failed select.
CategoryName(cat) ==
    CASE cat = "ZERO" -> <<"z", "e", "r", "o">>
      [] cat = "ONE" -> <<"o", "n", "e">>
      [] cat = "TWO" -> <<"t", "w", "o">>
      [] cat = "FEW" -> <<"f", "e", "w">>
      [] cat = "MANY" -> <<"m", "a", "n", "y">>
      [] cat = "OTHER" -> <<"o", "t", "h", "e", "r">>
      [] OTHER -> <<"?">>

SelectorCall ==
    /\ op = "matches"
    /\ self.kind = "String"
    /\ other.kind = "Number"

\* C1: a String holding one of the six keys matches a Number exactly when the
\* classifier of the negotiated locale (the first locale of the Lookup negotiation
\* of ctx.locales against the cardinal locales, fallback "en") puts the Number's
\* text into the category the key names; a failed select gives false, not a panic.
C1_SelectorMatchesCategory ==
    (SelectorCall /\ self.text \in SelectorKeys) =>
        LET loc == negotiate_languages(ctx.locales, CardinalLocales, <<"en">>)[1]
            cls == select(loc, other.text)
        IN  /\ ret.tag = "Bool"
            /\ ret.b <=> (CategoryName(cls) = self.text)
            /\ cls = "Err" => ret = Bool(FALSE)
            /\ trace.locales = <<loc>>
            /\ trace.classified = cls

C1_Witness ==
    /\ SelectorCall
    /\ self.text = <<"f", "e", "w">>
    /\ other.text = <<"1", "0">>
    /\ ctx.locales = << <<"xx">>, <<"ar">> >>
    /\ ret = Bool(TRUE)

\* C2: a String that is not exactly one of the six keys never matches a Number:
\* the call returns false, does not panic, and neither negotiates a locale nor
\* creates a classifier, whatever the collaborators would have done.
C2_InvalidKeyIsFalse ==
    (SelectorCall /\ self.text \notin SelectorKeys) =>
        /\ ret = Bool(FALSE)
        /\ trace = NoTrace

C2_Witness ==
    /\ SelectorCall
    /\ self.text = <<"O", "n", "e">>
    /\ other.text = <<"1">>
    /\ ctx.locales = << <<"en", "US">> >>
    /\ ret = Bool(FALSE)
    /\ trace.negotiated = "NotCalled"

\* C3: a Number never matches a String: the call returns false without any
\* negotiation or classification, also when the String matches the Number.
C3_NumberVsStringIsFalse ==
    (op = "matches" /\ self.kind = "Number" /\ other.kind = "String") =>
        /\ ret = Bool(FALSE)
        /\ trace = NoTrace

C3_Witness ==
    /\ op = "matches"
    /\ self = FluentNumber(<<"1">>)
    /\ other = FluentString(<<"o", "n", "e">>)
    /\ ret = Bool(FALSE)
    /\ matches(other, ctx, self, "contract").ret = Bool(TRUE)

\* C4: two values of the same kind match exactly when their stored texts are
\* equal character for character, whatever the context; on such pairs matches is
\* symmetric and reflexive.
C4_SameKindIsTextEquality ==
    (op = "matches" /\ self.kind = other.kind) =>
        /\ ret = Bool(self.text = other.text)
        /\ trace = NoTrace
        /\ \A c \in Contexts : matches(self, c, other, "contract").ret = ret
        /\ matches(other, ctx, self, "contract").ret = ret
        /\ matches(self, ctx, self, "contract").ret = Bool(TRUE)

C4_Witness ==
    /\ op = "matches"
    /\ self = FluentNumber(<<"1">>)
    /\ other = FluentNumber(<<"1", ".", "0">>)
    /\ ret = Bool(FALSE)

\* C5: format returns the stored text of either kind whatever the context; a
\* text that parses as a float is accepted by as_number and formats back to
\* itself, and a value converted from a string formats to that string.
C5_FormatIsVerbatim ==
    /\ op = "format" => ret = Text(self.text)
    /\ (op = "as_number" /\ arg.kind = "text" /\ F64FromStr(arg.text) = "Ok") =>
           ret.tag = "Ok"
    /\ (op = "format" /\ via = "as_number" /\ arg.kind = "text") => ret.s = arg.text
    /\ (op = "format" /\ via \in {"from_String", "from_str"}) =>
           self.kind = "String" /\ ret.s = arg.text

C5_Witness ==
    /\ op = "format"
    /\ via = "as_number"
    /\ arg = TextArg(<<"0", "0", "7">>)
    /\ ret = Text(<<"0", "0", "7">>)

FloatTexts ==
    { <<"1">>, <<"1", ".", "0">>, <<"0", "0", "7">>, <<"-", "1">>, <<"1", ".">>,
      <<".", "1">>, <<"-", ".", "1">>, <<"1", "e", "1">>, <<"1", "E", "-", "1">>,
      <<"1", ".", "e", "1">>, <<"+", "1">>, <<"i", "n", "f">>, <<"-", "i", "n", "f">>,
      <<"N", "a", "N">> }

NonFloatTexts ==
    { <<>>, <<"a", "b", "c">>, <<".">>, <<"-">>, <<"-", ".">>, <<"1", "e">>,
      <<"e", "1">>, <<"1", " ">>, <<"1", "-">>, <<"-", "-", "1">>, <<"1", ".", ".">>,
      <<"1", ".", "0", ".">>, <<"o", "n", "e">> }

\* C6: as_number returns a Number holding the input's text when that text parses
\* as a 64-bit float, and otherwise the parse error and no value at all.
C6_AsNumberIffFloat ==
    op = "as_number" =>
        LET t == to_string(arg)
        IN  /\ F64FromStr(t) = "Ok" => ret = OkValue(FluentNumber(t))
            /\ F64FromStr(t) # "Ok" => ret = ParseFloatError
            /\ t \in FloatTexts => ret.tag = "Ok"
            /\ t \in NonFloatTexts => ret.tag = "Err" /\ ret.val = NoValue

C6_Witness ==
    /\ op = "as_number"
    /\ arg = TextArg(<<"a", "b", "c">>)
    /\ ret = ParseFloatError

NoRequestedLocaleMatches ==
    \A k \in 1..Len(ctx.locales) : ~HasMatch(ctx.locales[k], CardinalLocales)

\* C7: when the requested-locale list is empty or none of its locales has a match
\* among the cardinal locales, negotiation resolves to "en" and a key matches a
\* Number exactly as it does with the requested list ["en"].
C7_FallbackIsEn ==
    (SelectorCall /\ self.text \in SelectorKeys /\ NoRequestedLocaleMatches) =>
        /\ trace.locales = << <<"en">> >>
        /\ ret = matches(self, MessageContext(<< <<"en">> >>), other, "contract").ret

C7_Witness ==
    /\ SelectorCall
    /\ self.text = <<"o", "n", "e">>
    /\ other.text = <<"1">>
    /\ ctx.locales = <<>>
    /\ ret = Bool(TRUE)

\* C8: in a key-against-Number match, a negotiation that returns no locale or a
\* classifier that cannot be created ends the call in a panic, never in a boolean.
C8_ContractViolationPanics ==
    ( /\ SelectorCall
      /\ self.text \in SelectorKeys
      /\ \/ trace.negotiated = "Called" /\ trace.locales = <<>>
         \/ trace.created = "Err" ) =>
        ret = Panic

C8_Witness ==
    /\ SelectorCall
    /\ self.text = <<"o", "n", "e">>
    /\ trace.negotiated = "Called"
    /\ trace.locales = <<>>
    /\ ret = Panic

\* C9: no operation has an observable effect besides its return value: nothing
\* is ever written to standard output.
C9_NoOutput == stdout = <<>>

\* C10: a Number returned by as_number, From<f32> or From<i8> holds text that
\* parses as a 64-bit float, and From<String> and From<&str> return a String
\* holding the input, also when the input looks like a number.
C10_ConstructedNumbersParse ==
    /\ (op \in {"as_number", "from_f32", "from_i8"} /\ ret.tag \in {"Ok", "Value"}) =>
           /\ ret.val.kind = "Number"
           /\ F64FromStr(ret.val.text) = "Ok"
    /\ op \in {"from_f32", "from_i8"} => ret.tag = "Value"
    /\ op \in {"from_String", "from_str"} =>
           ret = Value(FluentString(arg.text))

C10_Witness ==
    /\ op = "from_f32"
    /\ arg.f.class = "nan"
    /\ ret = Value(FluentNumber(<<"N", "a", "N">>))
====
